---- MODULE Spec2Model ----
(***************************************************************************)
(* Smart Contract Audit Agent (src/main.py, src/agent.py).                 *)
(*                                                                         *)
(* The Streamlit script of main.py runs top to bottom once per user event. *)
(* Each action below is one such script run: the sidebar, the upload and   *)
(* text-area widgets, the handler of the one button that was clicked, and  *)
(* the trailing "save last audit to file" block.  A handler that calls     *)
(* st.experimental_rerun() stops the run and leaves a rerun pending.       *)
(*                                                                         *)
(* Texts (source code, reports, port values) are sequences of one-letter   *)
(* strings, so that strip, splitlines, length and prefix are computed.     *)
(***************************************************************************)
EXTENDS Integers, Sequences, FiniteSets, TLC

VARIABLES
    session_state,   \* st.session_state: the six session fields
    history_file,    \* the file at HISTORY_PATH
    report_file,     \* reports/audit_report.txt: <<>> when absent, else <<text>>
    uploaded,        \* the file held by the upload widget: <<>> or <<text>>
    now,             \* the wall clock, in whole seconds
    rerun,           \* st.experimental_rerun() was called: a rerun is pending
    last,            \* what the latest script run did (observation)
    audit_succeeded, \* a generate-audit's remote call has succeeded in this session
    mail_env,        \* the process environment read by send_email
    mail_result,     \* what the latest send_email call did (observation)
    agent_call,      \* the latest direct call of an agent.py function and its result
    writers          \* concurrent sessions inside add_history_entry

vars == <<session_state, history_file, report_file, uploaded, now, rerun, last,
          audit_succeeded, mail_env, mail_result, agent_call, writers>>

(***************************************************************************)
(* Bounds of the model.                                                    *)
(***************************************************************************)
MaxHist == 2      \* records the store may hold before audits stop being issued
MaxTime == 1      \* the clock runs over 0..MaxTime
HashMod == 5      \* size of the fingerprint space standing for 12 hex digits
MaxUploadHist == 1   \* the same cap on the store in the sessions that upload files

(***************************************************************************)
(* Text helpers (Python str methods).                                      *)
(***************************************************************************)
Rep(c, n) == [i \in 1..n |-> c]

Whitespace == {" ", "\n"}

RECURSIVE lstrip(_, _)
lstrip(s, chars) ==
    IF s # <<>> /\ Head(s) \in chars THEN lstrip(Tail(s), chars) ELSE s

RECURSIVE rstrip(_, _)
rstrip(s, chars) ==
    IF s # <<>> /\ s[Len(s)] \in chars
    THEN rstrip(SubSeq(s, 1, Len(s) - 1), chars)
    ELSE s

\* str.strip(chars)
strip_chars(s, chars) == rstrip(lstrip(s, chars), chars)

\* str.strip()
strip(s) == strip_chars(s, Whitespace)

\* str.splitlines() for the line break "\n"
RECURSIVE splitlines(_)
splitlines(s) ==
    IF s = <<>> THEN <<>>
    ELSE LET brk == {i \in 1..Len(s) : s[i] = "\n"}
         IN  IF brk = {} THEN <<s>>
             ELSE LET i == CHOOSE j \in brk : \A k \in brk : j <= k
                  IN  <<SubSeq(s, 1, i - 1)>> \o splitlines(SubSeq(s, i + 1, Len(s)))

\* str.startswith(prefix)
startswith(s, prefix) ==
    Len(s) >= Len(prefix) /\ SubSeq(s, 1, Len(prefix)) = prefix

(***************************************************************************)
(* agent.py: the API client.  The remote endpoint is opaque: a call ends   *)
(* in one of the outcomes of Responses.                                    *)
(***************************************************************************)
OkReport  == [kind |-> "ok", content |-> <<" ", "#", " ", "r", "\n">>]
OkBlank   == [kind |-> "ok", content |-> <<" ">>]
ApiError  == [kind |-> "api_error", content |-> <<>>]   \* OpenAIError raised
Malformed == [kind |-> "malformed", content |-> <<>>]   \* no choices / content None

Responses == {OkReport, OkBlank, ApiError, Malformed}

\* the outcomes drawn in a session: to main.py a malformed response is an error
\* string like any other, and a blank simplified text is the simplified text
\* of a record that has none
AuditResponses == {OkReport, OkBlank, ApiError}
ExplainResponses == {OkReport, ApiError}

\* the remote call returned a completion (no exception inside the try block)
RemoteOk(resp) == resp.kind = "ok"

\* "X" stands for the cross-mark character that opens audit_contract's messages
FailureMarker == <<"X">>
AuditFailedMsg == FailureMarker \o <<"A">>        \* "<mark> Audit failed: ..."
AuditUnexpectedMsg == FailureMarker \o <<"U">>    \* "<mark> Unexpected error: ..."
SimplifyFailedMsg == <<"C">>       \* "Could not generate simple explanation: ..."
SimplifyUnexpectedMsg == <<"U">>   \* "Unexpected error while simplifying: ..."

audit_contract(code, resp) ==
    IF resp.kind = "ok" THEN strip(resp.content)
    ELSE IF resp.kind = "api_error" THEN AuditFailedMsg
    ELSE AuditUnexpectedMsg

explain_audit_simple(audit_text, resp) ==
    IF resp.kind = "ok" THEN strip(resp.content)
    ELSE IF resp.kind = "api_error" THEN SimplifyFailedMsg
    ELSE SimplifyUnexpectedMsg

(***************************************************************************)
(* main.py: audit history helpers.                                         *)
(***************************************************************************)
Alphabet == <<" ", "\n", "#", "r", "x", "A", "C", "U", "X">>

CharCode(c) == CHOOSE i \in 1..Len(Alphabet) : Alphabet[i] = c

\* sha256(code)[:12]: a deterministic digest into a space smaller than the texts
RECURSIVE Digest(_, _)
Digest(s, h) ==
    IF s = <<>> THEN h ELSE Digest(Tail(s), (h * 31 + CharCode(Head(s))) % HashMod)

_code_hash(code) == Digest(code, 0)

\* the file at HISTORY_PATH: absent, unparseable, or a JSON array of records
AbsentFile == [kind |-> "absent", data |-> <<>>]
GarbageFile == [kind |-> "garbage", data |-> <<>>]
\* a path that exists but that open() refuses, for reading and for writing
\* (permission denied, or the path is a directory)
LockedFile == [kind |-> "locked", data |-> <<>>]
JsonFile(history) == [kind |-> "json", data |-> history]

load_history(f) ==
    IF f.kind = "absent" THEN <<>>          \* not os.path.exists
    ELSE IF f.kind = "json" THEN f.data     \* json.load
    ELSE <<>>                               \* except Exception

save_history(history) == JsonFile(history)

\* save_history opens the file for writing outside any try block
save_raises(f) == f.kind = "locked"

TitleMax == 60
DefaultTitle == <<"A", "u", "d", "i", "t">>

RECURSIVE FirstTitle(_)
FirstTitle(lines) ==
    IF lines = <<>> THEN DefaultTitle
    ELSE LET line == strip(strip_chars(Head(lines), {"#", " "}))
         IN  IF line # <<>>
             THEN SubSeq(line, 1, IF Len(line) < TitleMax THEN Len(line) ELSE TitleMax)
             ELSE FirstTitle(Tail(lines))

infer_title_from_report(report) == FirstTitle(splitlines(report))

\* the entry built without the simplified text it was given
NewEntryNoSimple(code, report, simple_report, t) ==
    [id |-> <<_code_hash(code), t>>,
     timestamp |-> t,
     code_hash |-> _code_hash(code),
     code |-> code,
     report |-> report,
     simple_report |-> <<>>,
     title |-> infer_title_from_report(report)]

\* the entry built by add_history_entry at second t of the clock (_now_iso is
\* read for the id and again for the timestamp; both readings are taken to fall
\* in the same second)
NewEntry(code, report, simple_report, t) ==
    [id |-> <<_code_hash(code), t>>,
     timestamp |-> t,
     code_hash |-> _code_hash(code),
     code |-> code,
     report |-> report,
     simple_report |-> simple_report,
     title |-> infer_title_from_report(report)]

\* the entry put last instead of first
InsertBack(history, entry) == history \o <<entry>>

\* history.insert(0, entry)
InsertFront(history, entry) == <<entry>> \o history

\* add_history_entry: the file it leaves and the entry it returns
add_history_entry(f, code, report, simple_report, t) ==
    LET entry == NewEntry(code, report, simple_report, t)
    IN  [file |-> save_history(InsertFront(load_history(f), entry)),
         entry |-> entry]

IdsOf(history) == {history[i].id : i \in 1..Len(history)}

\* [e for e in history if e.get("id") != entry_id]
RECURSIVE FilterOut(_, _)
FilterOut(history, entry_id) ==
    IF history = <<>> THEN <<>>
    ELSE IF Head(history).id # entry_id
         THEN <<Head(history)>> \o FilterOut(Tail(history), entry_id)
         ELSE FilterOut(Tail(history), entry_id)

delete_history_entry_newest(f, entry_id) ==
    save_history(IF load_history(f) = <<>> THEN <<>> ELSE Tail(load_history(f)))

\* the file after delete_history_entry
delete_history_entry(f, entry_id) ==
    save_history(FilterOut(load_history(f), entry_id))

remove_history_missing(f) == IF f.kind = "absent" THEN AbsentFile ELSE f

\* "if os.path.exists(HISTORY_PATH): os.remove(HISTORY_PATH)"
remove_history(f) == IF f.kind # "absent" THEN AbsentFile ELSE f

(***************************************************************************)
(* main.py: session state and the inputs a user can give.                  *)
(***************************************************************************)
MinCodeLen == 10

CodeShort == <<" ">> \o Rep("x", 9) \o <<" ">>   \* 11 characters, 9 once trimmed
CodeA == Rep("x", 10)
CodeTexts == {CodeShort, CodeA}                  \* what may be pasted
UploadTexts == {CodeA}                           \* what may be uploaded

\* session defaults
SessionDefaults ==
    [code_text |-> <<>>, report |-> <<>>, simple_report |-> <<>>,
     audit_done |-> FALSE, simple_done |-> FALSE, selected_history_id |-> <<>>]

\* "if uploaded is not None and not st.session_state.code_text"
Hydrate(s, up) ==
    IF up # <<>> /\ s.code_text = <<>> THEN [s EXCEPT !.code_text = up[1]] ELSE s

\* the top of a script run with the text area left alone
RenderInput(s, up) == Hydrate(s, up)

\* "if st.session_state.audit_done and st.session_state.report": save last audit
SaveLastReport(s, rf) ==
    IF s.audit_done /\ s.report # <<>> THEN <<s.report>> ELSE rf

\* the guard measuring the text before trimming
GenerateRejectedUntrimmed(code) == code = <<>> \/ Len(code) < MinCodeLen

\* the guard of the generate-audit handler
GenerateRejected(code) == code = <<>> \/ Len(strip(code)) < MinCodeLen

\* the guard with its test inverted
ExplainRejectedInverted(s) == s.audit_done /\ s.report # <<>>

\* the guard of the explain-simply handler
ExplainRejected(s) == ~s.audit_done \/ s.report = <<>>

\* what a run reports about itself
Ran(op, called, ok, notice, entry) ==
    [op |-> op, called |-> called, ok |-> ok, notice |-> notice, entry |-> entry]

NoMail == [status |-> "none", connected |-> FALSE]
NoCall == [fn |-> "none", input |-> <<>>, resp |-> OkBlank, raised |-> FALSE,
           text |-> <<>>]
WriterIds == {1, 2}
IdleWriter == [pc |-> "idle", read |-> <<>>, entry |-> <<>>]
NoWriters == [order |-> <<>>, of |-> [w \in WriterIds |-> IdleWriter]]
NoEnv == [host |-> <<>>, port |-> <<>>, user |-> <<>>, pwd |-> <<>>]

Times == 0..MaxTime

Init ==
    /\ session_state = SessionDefaults
    /\ history_file = AbsentFile
    /\ report_file = <<>>
    /\ uploaded = <<>>
    /\ now = 0
    /\ rerun = FALSE
    /\ last = Ran("start", FALSE, FALSE, "none", <<>>)
    /\ audit_succeeded = FALSE
    /\ mail_env = NoEnv
    /\ mail_result = NoMail
    /\ agent_call = NoCall
    /\ writers = NoWriters

\* a run that ends normally executes the script's last block
FinishRun(s) ==
    /\ session_state' = s
    /\ report_file' = SaveLastReport(s, report_file)
    /\ rerun' = FALSE

(***************************************************************************)
(* Input events.                                                           *)
(***************************************************************************)
\* the user edits the text area: st.text_area returns the typed text
PasteFrom(texts) ==
    /\ ~rerun
    /\ \E text \in texts :
          FinishRun([Hydrate(session_state, uploaded) EXCEPT !.code_text = text])
    /\ last' = Ran("paste", FALSE, FALSE, "none", <<>>)
    /\ UNCHANGED <<history_file, uploaded, now, audit_succeeded, mail_env, mail_result, agent_call, writers>>

\* the user puts a file in the upload widget
UploadFile ==
    /\ ~rerun
    /\ \E text \in UploadTexts :
          /\ uploaded' = <<text>>
          /\ FinishRun(RenderInput(session_state, <<text>>))
    /\ last' = Ran("upload", FALSE, FALSE, "none", <<>>)
    /\ UNCHANGED <<history_file, now, audit_succeeded, mail_env, mail_result, agent_call, writers>>

\* the user removes the file from the upload widget
RemoveUpload ==
    /\ ~rerun
    /\ uploaded # <<>>
    /\ uploaded' = <<>>
    /\ FinishRun(RenderInput(session_state, <<>>))
    /\ last' = Ran("unupload", FALSE, FALSE, "none", <<>>)
    /\ UNCHANGED <<history_file, now, audit_succeeded, mail_env, mail_result, agent_call, writers>>

PasteCode == PasteFrom(CodeTexts)

\* the user may also empty the text area
PasteOrEmpty == PasteFrom(CodeTexts \cup {<<>>})

(***************************************************************************)
(* Sidebar: Load, Delete, Clear All (shown only when the history is not    *)
(* empty).                                                                 *)
(***************************************************************************)
\* the Load handler's assignments
LoadEntry(s, entry) ==
    [s EXCEPT !.code_text = entry.code,
              !.report = entry.report,
              !.simple_report = entry.simple_report,
              !.audit_done = (entry.report # <<>>),
              !.simple_done = (entry.simple_report # <<>>)]

\* Load clicked with entry idx selected
LoadAt(idx) ==
    /\ ~rerun
    /\ idx \in 1..Len(load_history(history_file))
    /\ FinishRun(RenderInput(LoadEntry(session_state, load_history(history_file)[idx]),
                             uploaded))
    /\ last' = Ran("load", FALSE, FALSE, "success", <<>>)
    /\ UNCHANGED <<history_file, uploaded, now, audit_succeeded, mail_env, mail_result, agent_call, writers>>

LoadHistory == \E idx \in 1..Len(load_history(history_file)) : LoadAt(idx)

\* Delete clicked with entry idx selected
DeleteAt(idx) ==
    /\ ~rerun
    /\ idx \in 1..Len(load_history(history_file))
    /\ history_file' =
          delete_history_entry(history_file, load_history(history_file)[idx].id)
    /\ rerun' = TRUE
    /\ last' = Ran("delete", FALSE, FALSE, "none", <<>>)
    /\ UNCHANGED <<session_state, report_file, uploaded, now, audit_succeeded,
                   mail_env, mail_result, agent_call, writers>>

DeleteHistory == \E idx \in 1..Len(load_history(history_file)) : DeleteAt(idx)

ClearAllHistory ==
    /\ ~rerun
    /\ load_history(history_file) # <<>>
    /\ history_file' = remove_history(history_file)
    /\ rerun' = TRUE
    /\ last' = Ran("clear_all", FALSE, FALSE, "none", <<>>)
    /\ UNCHANGED <<session_state, report_file, uploaded, now, audit_succeeded,
                   mail_env, mail_result, agent_call, writers>>

(***************************************************************************)
(* Main column: Generate Audit, Explain Simply, Clear.                     *)
(***************************************************************************)
\* the assignments without the reset of the simplified report
AuditIntoKeepSimple(s, resp) ==
    [s EXCEPT !.report = audit_contract(s.code_text, resp),
              !.audit_done = TRUE]

\* the generate-audit handler's assignments once the guard has passed
AuditInto(s, resp) ==
    [s EXCEPT !.report = audit_contract(s.code_text, resp),
              !.audit_done = TRUE,
              !.simple_report = <<>>,
              !.simple_done = FALSE]

\* the explain-simply handler's assignments once the guard has passed
ExplainInto(s, resp) ==
    [s EXCEPT !.simple_report = explain_audit_simple(s.report, resp),
              !.simple_done = TRUE]

\* the clear handler's assignments
ClearInto(s) ==
    [s EXCEPT !.code_text = <<>>, !.report = <<>>, !.simple_report = <<>>,
              !.audit_done = FALSE, !.simple_done = FALSE]

\* the handler saves to history, at some second t not before the last one seen
SaveToHistory(s, op, resp, cap) ==
    /\ Len(load_history(history_file)) < cap
    /\ \E t \in Times :
          /\ now <= t
          /\ now' = t
          /\ LET added == add_history_entry(history_file, s.code_text, s.report,
                                            s.simple_report, t)
             IN  /\ history_file' = added.file
                 /\ last' = Ran(op, TRUE, RemoteOk(resp), "none", <<added.entry>>)

GenerateAuditUpTo(cap) ==
    /\ ~rerun
    /\ LET s == RenderInput(session_state, uploaded)
       IN  IF GenerateRejected(s.code_text)
           THEN /\ FinishRun(s)
                /\ last' = Ran("generate", FALSE, FALSE, "warning", <<>>)
                /\ UNCHANGED <<history_file, now, audit_succeeded>>
           ELSE \E resp \in AuditResponses :
                   /\ SaveToHistory(AuditInto(s, resp), "generate", resp, cap)
                   /\ FinishRun(AuditInto(s, resp))
                   /\ audit_succeeded' = (audit_succeeded \/ RemoteOk(resp))
    /\ UNCHANGED <<uploaded, mail_env, mail_result, agent_call, writers>>

ExplainSimplyUpTo(cap) ==
    /\ ~rerun
    /\ LET s == RenderInput(session_state, uploaded)
       IN  IF ExplainRejected(s)
           THEN /\ FinishRun(s)
                /\ last' = Ran("explain", FALSE, FALSE, "info", <<>>)
                /\ UNCHANGED <<history_file, now>>
           ELSE \E resp \in ExplainResponses :
                   /\ SaveToHistory(ExplainInto(s, resp), "explain", resp, cap)
                   /\ FinishRun(ExplainInto(s, resp))
    /\ UNCHANGED <<uploaded, audit_succeeded, mail_env, mail_result, agent_call, writers>>

GenerateAudit == GenerateAuditUpTo(MaxHist)

ExplainSimply == ExplainSimplyUpTo(MaxHist)

Clear ==
    /\ ~rerun
    /\ session_state' = ClearInto(RenderInput(session_state, uploaded))
    /\ rerun' = TRUE
    /\ last' = Ran("clear", FALSE, FALSE, "none", <<>>)
    /\ UNCHANGED <<history_file, report_file, uploaded, now, audit_succeeded,
                   mail_env, mail_result, agent_call, writers>>

\* the run started by st.experimental_rerun(): no button is down
Rerun ==
    /\ rerun
    /\ FinishRun(RenderInput(session_state, uploaded))
    /\ last' = Ran("rerun", FALSE, FALSE, "none", <<>>)
    /\ UNCHANGED <<history_file, uploaded, now, audit_succeeded, mail_env, mail_result, agent_call, writers>>

Next ==
    \/ PasteCode
    \/ LoadHistory
    \/ DeleteHistory
    \/ ClearAllHistory
    \/ GenerateAudit
    \/ ExplainSimply
    \/ Clear
    \/ Rerun

\* Sessions in which the source text is pasted.
Spec == Init /\ [][Next]_vars

\* Sessions that also use the upload widget, over a store of at most
\* MaxUploadHist records.
GenerateAuditSmall == GenerateAuditUpTo(MaxUploadHist)

ExplainSimplySmall == ExplainSimplyUpTo(MaxUploadHist)

NextUpload ==
    \/ PasteOrEmpty
    \/ UploadFile
    \/ RemoveUpload
    \/ LoadHistory
    \/ DeleteHistory
    \/ ClearAllHistory
    \/ GenerateAuditSmall
    \/ ExplainSimplySmall
    \/ Clear
    \/ Rerun

SpecUpload == Init /\ [][NextUpload]_vars

(***************************************************************************)
(* Properties of the session (specification Spec).                         *)
(***************************************************************************)
Stored == load_history(history_file)
StoredNext == load_history(history_file')

\* C2: deleteById(id) followed by loadAll yields a sequence with no record of
\* that id, exactly one shorter than before when the id was present (the Delete
\* button always names a stored id).
C2_DeleteRemovesExactlyOne ==
    [][\A idx \in 1..Len(Stored) :
          DeleteAt(idx) =>
             /\ Stored[idx].id \notin IdsOf(StoredNext)
             /\ Len(StoredNext) = Len(Stored) - 1]_vars

\* C3: in every reachable state of the history store no two stored records
\* have the same id.
C3_IdsUnique ==
    \A i, j \in 1..Len(Stored) : i # j => Stored[i].id # Stored[j].id

\* C4: a generate-audit or explain-simply run whose remote call fails creates
\* no history record.
C4_FailedCallAddsNoRecord ==
    [][(last'.op \in {"generate", "explain"} /\ last'.called /\ ~last'.ok)
          => StoredNext = Stored]_vars

\* C5: explain-simply performs a remote call only when a generate-audit has
\* succeeded earlier in the session.
C5_ExplainNeedsSuccessfulAudit ==
    (last.op = "explain" /\ last.called) => audit_succeeded

\* C6: with no prior audit (audit-completed flag false, report empty),
\* explain-simply performs no remote call, adds no history record and leaves
\* the simplified report empty.
C6_ExplainWithoutAudit ==
    [][(/\ ~session_state.audit_done
        /\ session_state.report = <<>>
        /\ last'.op = "explain")
          => /\ ~last'.called
             /\ last'.notice = "info"
             /\ history_file' = history_file
             /\ session_state'.simple_report = <<>>]_vars

C6_Witness ==
    /\ last.op = "explain"
    /\ last.notice = "info"
    /\ ~session_state.audit_done
    /\ session_state.report = <<>>
    /\ session_state.simple_report = <<>>

\* the text of s without its leading and trailing blanks, computed directly
Trimmed(s) ==
    LET solid == {i \in 1..Len(s) : s[i] \notin Whitespace}
    IN  IF solid = {} THEN <<>>
        ELSE SubSeq(s, CHOOSE i \in solid : \A k \in solid : i <= k,
                       CHOOSE j \in solid : \A k \in solid : k <= j)

TooShort(code) == code = <<>> \/ Len(Trimmed(code)) < MinCodeLen

\* C7: when the current source text is empty or shorter than 10 characters
\* once trimmed, generate-audit surfaces a warning, performs no remote call,
\* adds no history record and leaves the report, the simplified report and
\* both completion flags unchanged.
C7_ShortCodeRejected ==
    [][(TooShort(session_state.code_text) /\ last'.op = "generate")
          => /\ last'.notice = "warning"
             /\ ~last'.called
             /\ history_file' = history_file
             /\ session_state'.report = session_state.report
             /\ session_state'.simple_report = session_state.simple_report
             /\ session_state'.audit_done = session_state.audit_done
             /\ session_state'.simple_done = session_state.simple_done]_vars

\* a warning was surfaced for a text that is long enough before trimming only
C7_Witness ==
    /\ last.op = "generate"
    /\ last.notice = "warning"
    /\ Len(session_state.code_text) >= MinCodeLen
    /\ session_state.report # <<>>

\* C8: every successful generate-audit or explain-simply run adds exactly one
\* new record to the front of the store, carrying the session's source text
\* and report (for explain-simply the new simplified text together with the
\* original report); the records stored before all stay, in order.
C8_SuccessAddsOneRecordInFront ==
    [][(last'.op \in {"generate", "explain"} /\ last'.called /\ last'.ok)
          => /\ Len(StoredNext) = Len(Stored) + 1
             /\ Tail(StoredNext) = Stored
             /\ Head(StoredNext).code = session_state'.code_text
             /\ Head(StoredNext).report = session_state'.report
             /\ Head(StoredNext).simple_report = session_state'.simple_report
             /\ last'.op = "explain" =>
                   Head(StoredNext).report = session_state.report]_vars

\* an explain-simply has succeeded and the audit's record is still below its own
C8_Witness ==
    /\ last.op = "explain"
    /\ last.ok
    /\ Len(Stored) >= 2
    /\ Stored[1].simple_report # <<>>
    /\ Stored[2].simple_report = <<>>
    /\ Stored[2].report = Stored[1].report

(***************************************************************************)
(* The history store on its own (specification SpecStore): the helpers are *)
(* applied to any prior content of the backing file.                       *)
(***************************************************************************)
ReportTexts == {strip(OkReport.content), AuditFailedMsg}
SimpleTexts == {<<>>, strip(OkReport.content)}

PriorRecords ==
    {NewEntry(CodeA, r, s, t) : r \in ReportTexts, s \in SimpleTexts, t \in Times}

SeqsUpTo(S, n) == UNION {[1..k -> S] : k \in 0..n}

StoreStates ==
    {AbsentFile, GarbageFile} \cup {JsonFile(h) : h \in SeqsUpTo(PriorRecords, MaxHist)}

EntryIds == (0..(HashMod - 1)) \X Times

InitStore ==
    /\ session_state = SessionDefaults
    /\ history_file \in StoreStates
    /\ report_file = <<>>
    /\ uploaded = <<>>
    /\ now = 0
    /\ rerun = FALSE
    /\ last = Ran("start", FALSE, FALSE, "none", <<>>)
    /\ audit_succeeded = FALSE
    /\ mail_env = NoEnv
    /\ mail_result = NoMail
    /\ agent_call = NoCall
    /\ writers = NoWriters

StoreFrame ==
    UNCHANGED <<session_state, report_file, uploaded, now, rerun, audit_succeeded,
                mail_env, mail_result, agent_call, writers>>

\* add_history_entry(code, report, simple_report); when save_history raises,
\* nothing is written and no entry is returned
StoreAppend ==
    /\ Len(load_history(history_file)) < MaxHist
    /\ \E code \in CodeTexts, report \in ReportTexts, simple \in SimpleTexts, t \in Times :
          LET added == add_history_entry(history_file, code, report, simple, t)
          IN  IF save_raises(history_file)
              THEN /\ history_file' = history_file
                   /\ last' = Ran("append", FALSE, FALSE, "raised", <<>>)
              ELSE /\ history_file' = added.file
                   /\ last' = Ran("append", FALSE, FALSE, "none", <<added.entry>>)
    /\ StoreFrame

\* delete_history_entry(entry_id)
StoreDeleteId(entry_id) ==
    IF save_raises(history_file)
    THEN /\ history_file' = history_file
         /\ last' = Ran("delete", FALSE, FALSE, "raised", <<>>)
    ELSE /\ history_file' = delete_history_entry(history_file, entry_id)
         /\ last' = Ran("delete", FALSE, FALSE,
                        IF entry_id \in IdsOf(load_history(history_file))
                        THEN "removed" ELSE "none", <<>>)

StoreDelete ==
    /\ \E entry_id \in EntryIds : StoreDeleteId(entry_id)
    /\ StoreFrame

\* the Clear All handler's store operation; the notice tells whether a file
\* was there to remove
StoreClearAll ==
    /\ history_file' = remove_history(history_file)
    /\ last' = Ran("clear_all", FALSE, FALSE,
                   IF history_file.kind # "absent" THEN "removed" ELSE "none", <<>>)
    /\ StoreFrame

NextStore ==
    \/ StoreAppend
    \/ StoreDelete
    \/ StoreClearAll

SpecStore == InitStore /\ [][NextStore]_vars

\* C1: whatever the backing file held (absent, unreadable, or any sequence of
\* records), after append(record) loadAll returns a sequence whose first
\* element is the appended record.
C1_AppendThenLoadHead ==
    last.op = "append" =>
        /\ Stored # <<>>
        /\ Head(Stored) = last.entry[1]

\* an append onto a store that already held records
C1_Witness ==
    /\ last.op = "append"
    /\ Len(Stored) >= 2
    /\ Stored[2] # Stored[1]

(***************************************************************************)
(* The notification sender (specification SpecMail): send_email under any  *)
(* process environment and any behaviour of the relay.                     *)
(***************************************************************************)
\* an environment variable is <<>> when unset and <<text>> when set
Unset == <<>>
SetTo(text) == <<text>>

\* os.getenv(name, default)
getenv(env, name, default) == IF env[name] = Unset THEN default ELSE env[name][1]

Digits == <<"0", "1", "2", "3", "4", "5", "6", "7", "8", "9">>
DigitSet == {Digits[i] : i \in 1..Len(Digits)}
DigitValue(c) == (CHOOSE i \in 1..Len(Digits) : Digits[i] = c) - 1

\* int(text) succeeds on decimal digits, blanks around them allowed
IsIntLiteral(text) ==
    /\ strip(text) # <<>>
    /\ \A i \in 1..Len(strip(text)) : strip(text)[i] \in DigitSet

RECURSIVE IntOf(_, _)
IntOf(text, acc) ==
    IF text = <<>> THEN acc ELSE IntOf(Tail(text), acc * 10 + DigitValue(Head(text)))

DefaultPort == <<"5", "8", "7">>

\* os.getenv("SMTP_PORT", "587") or "587"
PortText(env) ==
    LET given == getenv(env, "port", DefaultPort)
    IN  IF given = <<>> THEN DefaultPort ELSE given

\* "not all([host, port, user, pwd])"
SettingsMissing(host, port, user, pwd) ==
    host = <<>> \/ port = 0 \/ user = <<>> \/ pwd = <<>>

\* msg["To"] = to_email raises on a line break in the header value
HeaderRejected(to_email) == \E i \in 1..Len(to_email) : to_email[i] = "\n"

Outcome(status, connected) == [status |-> status, connected |-> connected]

\* send_email: "sent", "missing" (the settings-missing message), "error" (an
\* "Email error: ..." message) are returned; "raised" is an exception that
\* reaches the caller.  connected: smtplib.SMTP(host, port) was called.
send_email(env, body, to_email, subject, relay) ==
    IF ~IsIntLiteral(PortText(env))
    THEN Outcome("raised", FALSE)           \* int() is outside the try block
    ELSE LET host == getenv(env, "host", <<>>)
             port == IntOf(strip(PortText(env)), 0)
             user == getenv(env, "user", <<>>)
             pwd  == getenv(env, "pwd", <<>>)
         IN  IF SettingsMissing(host, port, user, pwd)
             THEN Outcome("missing", FALSE)
             ELSE IF HeaderRejected(to_email) THEN Outcome("error", FALSE)
             ELSE IF relay = "ok" THEN Outcome("sent", TRUE)
             ELSE Outcome("error", TRUE)

EnvNames == {"host", "port", "user", "pwd"}

Envs ==
    [host : {Unset, SetTo(<<>>), SetTo(<<"h">>)},
     port : {Unset, SetTo(<<>>), SetTo(<<"0">>), SetTo(<<" ", "2", "5">>), SetTo(<<"x">>)},
     user : {Unset, SetTo(<<>>), SetTo(<<"u">>)},
     pwd  : {Unset, SetTo(<<"p">>)}]

Bodies == {<<>>, strip(OkReport.content)}
Recipients == {<<"t">>, <<"t", "\n">>}
Subjects == {<<"S">>}
RelayOutcomes == {"ok", "refused", "auth_failed"}

InitMail ==
    /\ session_state = SessionDefaults
    /\ history_file = AbsentFile
    /\ report_file = <<>>
    /\ uploaded = <<>>
    /\ now = 0
    /\ rerun = FALSE
    /\ last = Ran("start", FALSE, FALSE, "none", <<>>)
    /\ audit_succeeded = FALSE
    /\ mail_env \in Envs
    /\ mail_result = NoMail
    /\ agent_call = NoCall
    /\ writers = NoWriters

SendEmail ==
    /\ \E body \in Bodies, to_email \in Recipients, subject \in Subjects,
          relay \in RelayOutcomes :
          mail_result' = send_email(mail_env, body, to_email, subject, relay)
    /\ UNCHANGED <<session_state, history_file, report_file, uploaded, now, rerun,
                   last, audit_succeeded, mail_env, agent_call, writers>>

NextMail == SendEmail

SpecMail == InitMail /\ [][NextMail]_vars

\* C9: if any of host, port, username, password is absent from the process
\* environment, send returns the configuration-missing status and makes no
\* connection attempt (stated of the calls that return).
C9_AnySettingAbsentMeansMissing ==
    (/\ mail_result.status \notin {"none", "raised"}
     /\ \E name \in EnvNames : mail_env[name] = Unset)
        => (mail_result.status = "missing" /\ ~mail_result.connected)

\* C10: under every environment (a malformed port value included) and every
\* relay failure, send returns the success token or a status string; it never
\* raises to the caller.
C10_SendNeverRaises ==
    mail_result.status # "raised"


(***************************************************************************)
(* agent.py called directly: both functions over every input text and      *)
(* every outcome of the remote call.                                       *)
(***************************************************************************)
\* what the try block raises for a remote outcome: OpenAIError covers API and
\* connection errors; a response without choices or with content None raises
\* IndexError / AttributeError at resp.choices[0].message.content.strip()
ExceptionOf(resp) ==
    IF resp.kind = "ok" THEN "none"
    ELSE IF resp.kind = "api_error" THEN "OpenAIError"
    ELSE "Exception"

HandledApiOnly(exc) == exc = "OpenAIError"

\* the two except clauses: OpenAIError, then every other Exception
Handled(exc) == exc \in {"OpenAIError", "Exception"}

\* calling fn: the exception escapes unless an except clause takes it
Call(fn, input, resp) ==
    LET raised == ExceptionOf(resp) # "none" /\ ~Handled(ExceptionOf(resp))
    IN  [fn |-> fn, input |-> input, resp |-> resp, raised |-> raised,
         text |-> IF raised THEN <<>>
                  ELSE IF fn = "audit_contract" THEN audit_contract(input, resp)
                  ELSE explain_audit_simple(input, resp)]

AgentTexts == {CodeShort, CodeA, <<"x">>, <<"#", " ", "r">>, <<" ">>, <<"\n">>,
               AuditFailedMsg}

OkContents == {<<>>, <<"r">>, <<"\n", "r", " ">>, <<"r", " ", "r">>,
               FailureMarker}

AgentResponses == Responses \cup {[kind |-> "ok", content |-> c] : c \in OkContents}

InitAgent ==
    /\ session_state = SessionDefaults
    /\ history_file = AbsentFile
    /\ report_file = <<>>
    /\ uploaded = <<>>
    /\ now = 0
    /\ rerun = FALSE
    /\ last = Ran("none", FALSE, FALSE, "none", <<>>)
    /\ audit_succeeded = FALSE
    /\ mail_env = NoEnv
    /\ mail_result = NoMail
    /\ agent_call = NoCall
    /\ writers = NoWriters

AgentFrame == UNCHANGED <<session_state, history_file, report_file, uploaded, now,
                          rerun, last, audit_succeeded, mail_env, mail_result,
                          writers>>

CallAudit ==
    /\ \E code \in AgentTexts, resp \in AgentResponses :
          agent_call' = Call("audit_contract", code, resp)
    /\ AgentFrame

CallSimplify ==
    /\ \E audit_text \in AgentTexts, resp \in AgentResponses :
          agent_call' = Call("explain_audit_simple", audit_text, resp)
    /\ AgentFrame

NextAgent ==
    \/ CallAudit
    \/ CallSimplify

SpecAgent == InitAgent /\ [][NextAgent]_vars

\* C11: explain_audit_simple, like audit_contract, answers a failed remote call
\* without raising, with a string that begins with audit_contract's failure
\* marker.
C11_SimplifyFailureCarriesMarker ==
    (agent_call.fn = "explain_audit_simple" /\ ~RemoteOk(agent_call.resp))
        => /\ ~agent_call.raised
           /\ startswith(agent_call.text, FailureMarker)

\* C12: for every non-empty source text and every remote outcome audit_contract
\* does not raise; it returns the trimmed response text when the call returned
\* one, and otherwise a string that starts with the failure marker.
C12_AuditNeverRaises ==
    (agent_call.fn = "audit_contract" /\ agent_call.input # <<>>)
        => /\ ~agent_call.raised
           /\ IF RemoteOk(agent_call.resp)
              THEN agent_call.text = Trimmed(agent_call.resp.content)
              ELSE startswith(agent_call.text, FailureMarker)

\* a malformed response answered with a marked string, and a completion trimmed
C12_Witness ==
    /\ agent_call.fn = "audit_contract"
    /\ agent_call.input # <<>>
    /\ agent_call.resp = Malformed
    /\ ~agent_call.raised
    /\ startswith(agent_call.text, FailureMarker)
    /\ agent_call.text # AuditFailedMsg


(***************************************************************************)
(* Properties of sessions that use the upload widget (SpecUpload).         *)
(***************************************************************************)
\* C13: after Clear every session field is empty or false (code text, report,
\* simplified report, both flags, selected history id), and this still holds
\* when the view has been rendered again after the clear, also with a file
\* still held by the upload widget.
C13_ClearLeavesSessionEmpty ==
    [][/\ last'.op = "clear" => session_state' = SessionDefaults
       /\ (last.op = "clear" /\ last'.op = "rerun")
             => session_state' = SessionDefaults]_vars


(***************************************************************************)
(* Properties of the history store (SpecStore).                            *)
(***************************************************************************)
\* C14: whatever the store held before (no file, an empty list, any number of
\* records), after clearAll loadAll returns the empty sequence.
C14_ClearAllThenLoadEmpty ==
    last.op = "clear_all" => Stored = <<>>

\* clearAll removed an existing file and the store reads as empty
C14_Witness ==
    /\ last.op = "clear_all"
    /\ last.notice = "removed"
    /\ history_file = AbsentFile
    /\ Stored = <<>>


(***************************************************************************)
(* The store over a missing, unparseable or unopenable backing file        *)
(* (specification SpecCorrupt).                                            *)
(***************************************************************************)
BadFiles == {AbsentFile, GarbageFile, LockedFile}

InitCorrupt ==
    /\ session_state = SessionDefaults
    /\ history_file \in BadFiles
    /\ report_file = <<>>
    /\ uploaded = <<>>
    /\ now = 0
    /\ rerun = FALSE
    /\ last = Ran("start", FALSE, FALSE, "none", <<>>)
    /\ audit_succeeded = FALSE
    /\ mail_env = NoEnv
    /\ mail_result = NoMail
    /\ agent_call = NoCall
    /\ writers = NoWriters

SpecCorrupt == InitCorrupt /\ [][NextStore]_vars

\* the sidebar: a caption for an empty history, the select box otherwise
RenderSidebar(history) == IF history = <<>> THEN "caption" ELSE "selectbox"

\* C15: while the backing file is missing, unparseable or unreadable, loadAll
\* returns the empty sequence and the sidebar shows the empty history, and no
\* store operation (append, deleteById, clearAll) fails.
C15_BadFileIsEmptyHistory ==
    /\ history_file \in BadFiles
          => /\ Stored = <<>>
             /\ RenderSidebar(Stored) = "caption"
    /\ last.notice # "raised"


(***************************************************************************)
(* Two sessions inside add_history_entry at once (specification SpecRace). *)
(* A session reads the file at line 76 and writes it back at line 78;      *)
(* nothing orders the two steps of one session against the other's.        *)
(***************************************************************************)
RacePriors ==
    {AbsentFile, GarbageFile, JsonFile(<<>>)} \cup {JsonFile(<<p>>) : p \in PriorRecords}

InitRace ==
    /\ session_state = SessionDefaults
    /\ history_file \in RacePriors
    /\ report_file = <<>>
    /\ uploaded = <<>>
    /\ now = 0
    /\ rerun = FALSE
    /\ last = Ran("start", FALSE, FALSE, "none", <<>>)
    /\ audit_succeeded = FALSE
    /\ mail_env = NoEnv
    /\ mail_result = NoMail
    /\ agent_call = NoCall
    /\ writers = NoWriters

RaceFrame == UNCHANGED <<session_state, report_file, uploaded, now, rerun, last,
                         audit_succeeded, mail_env, mail_result, agent_call>>

WriteBackFresh(f, read, entry) == save_history(InsertFront(load_history(f), entry))

\* "history.insert(0, entry); save_history(history)" on the list read earlier
WriteBack(f, read, entry) == save_history(InsertFront(read, entry))

\* lines 67-76: the entry is built and the stored list is read
WriterRead(w) ==
    /\ writers.of[w].pc = "idle"
    /\ \E code \in CodeTexts, t \in Times :
          writers' = [writers EXCEPT !.of[w] =
              [pc |-> "loaded", read |-> load_history(history_file),
               entry |-> NewEntry(code, strip(OkReport.content), <<>>, t)]]
    /\ UNCHANGED history_file
    /\ RaceFrame

\* lines 77-79: the entry is put in front of the list read and the file rewritten
WriterWrite(w) ==
    /\ writers.of[w].pc = "loaded"
    /\ history_file' = WriteBack(history_file, writers.of[w].read, writers.of[w].entry)
    /\ writers' = [writers EXCEPT !.of[w].pc = "done", !.order = Append(@, w)]
    /\ RaceFrame

NextRace ==
    \/ \E w \in WriterIds : WriterRead(w)
    \/ \E w \in WriterIds : WriterWrite(w)

SpecRace == InitRace /\ [][NextRace]_vars

BothDone == \A w \in WriterIds : writers.of[w].pc = "done"

\* C16: two sessions appending at once are not serialised: when both appends
\* have completed the store is exactly what the last writer wrote, and when
\* both had read the same sequence before either wrote, it holds the last
\* writer's record in front of that sequence and nothing of the other append.
C16_LastWriterWins ==
    BothDone =>
        LET first == writers.of[writers.order[1]]
            final == writers.of[writers.order[2]]
        IN  /\ Stored = InsertFront(final.read, final.entry)
            /\ first.read = final.read
                  => /\ Stored = <<final.entry>> \o first.read
                     /\ Len(Stored) = Len(first.read) + 1

\* the lost update: both appends returned, the first writer's record is not stored
C16_Witness ==
    /\ BothDone
    /\ writers.of[writers.order[1]].read = writers.of[writers.order[2]].read
    /\ writers.of[1].entry # writers.of[2].entry
    /\ \A i \in 1..Len(Stored) : Stored[i] # writers.of[writers.order[1]].entry


(***************************************************************************)
(* The store under one writer (SpecStore): what each operation leaves.     *)
(***************************************************************************)
\* the records of history whose id is not entry_id, in their order
Without(history, entry_id) ==
    LET Kept(e) == e.id # entry_id
    IN  SelectSeq(history, Kept)

\* C17: with one writer each operation leaves the store as the claim counts it:
\* append puts the new record in front of the unchanged earlier records,
\* deleteById leaves exactly the records of other ids with their fields and
\* order, clearAll leaves none; so the store is always the records appended
\* since the last clearAll and not deleted since, newest first.
C17_StoreIsAppendedMinusDeleted ==
    [][/\ (last'.op = "append" /\ last'.notice # "raised")
             => StoredNext = <<last'.entry[1]>> \o Stored
       /\ \A entry_id \in EntryIds :
             StoreDeleteId(entry_id) => StoredNext = Without(Stored, entry_id)
       /\ last'.op = "clear_all" => StoredNext = <<>>]_vars

\* a delete that removed a record and left others behind
C17_Witness ==
    /\ last.op = "delete"
    /\ last.notice = "removed"
    /\ Stored # <<>>


(***************************************************************************)
(* Load (SpecUpload).                                                      *)
(***************************************************************************)
\* C18: Load copies the selected record's source text, report and simplified
\* text into the session state and leaves the store unchanged.
C18_LoadCopiesRecord ==
    [][\A idx \in 1..Len(Stored) :
          LoadAt(idx)
             => /\ history_file' = history_file
                /\ session_state'.code_text = Stored[idx].code
                /\ session_state'.report = Stored[idx].report
                /\ session_state'.simple_report = Stored[idx].simple_report]_vars


(***************************************************************************)
(* The last-report file (Spec).                                            *)
(***************************************************************************)
\* C19: the last-report file is written only by a successful generate-audit,
\* with that audit's report; a load, a failed audit or an explain never changes
\* its content, so whenever it exists it holds the report of the most recent
\* successful generate-audit of the session.
C19_ReportFileOnlyAfterSuccessfulAudit ==
    [][report_file' # report_file
          => /\ last'.op = "generate"
             /\ last'.ok
             /\ report_file' = <<session_state'.report>>]_vars


(***************************************************************************)
(* The simplified report depends on the audit report (Spec).               *)
(***************************************************************************)
\* a simplified text never stands without the report it was made from
SimpleNeedsReport ==
    /\ session_state.simple_report # <<>>
          => (session_state.report # <<>> /\ session_state.audit_done)
    /\ \A i \in 1..Len(Stored) :
          Stored[i].simple_report # <<>> => Stored[i].report # <<>>

SimpleReset ==
    /\ session_state'.simple_report = <<>>
    /\ ~session_state'.simple_done

\* C20 as stated: in every reachable state a non-empty simplified report in the
\* session comes with a non-empty audit report and the audit-completed flag,
\* every stored record with a simplified text has a report, and a
\* generate-audit action always resets the simplified report and its flag.
C20_GenerateAlwaysResetsSimple ==
    /\ []SimpleNeedsReport
    /\ [][last'.op = "generate" => SimpleReset]_vars

\* C20 amended: the same, with the reset made by every generate-audit that
\* passes the guard on the source text; a rejected one leaves the simplified
\* report as it was.
C20_AcceptedGenerateResetsSimple ==
    /\ []SimpleNeedsReport
    /\ [][/\ (last'.op = "generate" /\ last'.called) => SimpleReset
          /\ (last'.op = "generate" /\ ~last'.called)
                => session_state'.simple_report = session_state.simple_report]_vars

\* an audit generated after a simplified text had been made: the session's
\* simplified text is gone, the store still holds it
C20_Witness ==
    /\ last.op = "generate"
    /\ last.called
    /\ session_state.simple_report = <<>>
    /\ ~session_state.simple_done
    /\ \E i \in 1..Len(Stored) :
          /\ Stored[i].simple_report # <<>>
          /\ Stored[i].code = session_state.code_text

====
